---- MODULE Spec2Model ----
(***************************************************************************)
(* A model of the cadence planning engine: the day-by-day greedy scheduler *)
(* (src/scheduler.py, build_schedule), the risk model with its stress      *)
(* index and capacity forecast (src/risk_model.py, compute_task_risk,      *)
(* compute_weighted_stress, forecast_system_risk) and the priority scores  *)
(* (src/scoring.py, compute_priority_scores).  Each function has its own   *)
(* specification over the same variables: Spec, SpecRisk, SpecStress,      *)
(* SpecForecast and SpecScore.  build_schedule has two more, which differ  *)
(* from Spec in the tables they draw: SpecDup, whose rows may share a      *)
(* name, and SpecFloat, whose hours are doubles that are no binary         *)
(* fractions of small denominator.                                         *)
(*                                                                         *)
(* Hours are Python floats in the source.  The model counts hours in units *)
(* of 1/6400 h, so that one hundredth of an hour (the precision of         *)
(* round(x, 2)) is Cent = 64 units and 1/256 h is 25 units.  Every input   *)
(* Spec draws is a multiple of 1/256 h: such values, and their sums        *)
(* and differences, are exact binary floats, so the integer arithmetic of  *)
(* the model is the float arithmetic of the code, and round(x, 2) of an    *)
(* exact value is the nearest hundredth with ties going to the even one.   *)
(*                                                                         *)
(* The quotients and scores of the risk model and of the priority scores   *)
(* are carried as exact fractions (with the 1e-9 of the guarded divisors)  *)
(* where they are compared, risk_score in thousandths rounded down, and    *)
(* failure_probability in ten-thousandths, within 0.001 of the sigmoid.    *)
(* The rounding of the float operations themselves, of the order of 1e-16, *)
(* is not modelled there.                                                  *)
(***************************************************************************)
EXTENDS Integers, Sequences, FiniteSets

\* ------------------------------------------------------------------ units

\* Units in one hundredth of an hour: the grid of round(x, 2).
Cent == 64

Hour == 100 * Cent

\* ----------------------------------------------------------------- bounds

\* Largest number of rows of the task table.
MaxTasks == 2

\* Largest days_left of a row and largest horizon_days.
MaxDay == 3

\* Largest number of calls of compute_task_risk on one table.
MaxCalls == 2

NameList == <<"A", "B", "C", "D">>

\* est_hours: 1/256 h, 0.375 h and 5 h.
EstHoursValues == {Hour \div 256, (3 * Hour) \div 8, 5 * Hour}

\* daily_capacity: 0.375 h and 4 h.
CapacityValues == {(3 * Hour) \div 8, 4 * Hour}

\* priority_score, in thousandths: 0.20 and 0.90.
PriorityValues == {200, 900}

Modes == {"Academic", "Operational", "Balanced"}

VARIABLES
    df_scored,        \* the task table passed in (rows in the caller's order)
    daily_capacity,   \* hours per day
    horizon_days,     \* number of days planned
    mode,             \* dispatch policy
    tasks,            \* the sorted copy of the table
    remaining,        \* name -> hours still to grant
    day,              \* the day the day loop is at
    schedule_rows,    \* one row per finished day
    allocation_log,   \* one entry per grant
    deadline_risks,   \* filled by the final pass
    pc,               \* "idle", "call", "days", "done"
    \* compute_task_risk
    df,                        \* the table passed in: its columns and rows
    available_hours_per_day,
    planning_horizon_days,
    out,                       \* the working copy
    returned,                  \* the table handed back, if any
    raised,                    \* the exception raised, if any
    risk_pc,                   \* "idle", "call", "checked", "returned", "raised"
    out_obj,                   \* the object `out` names: "none", "caller", "fresh"
    previous,                  \* what the caller keeps of its previous call
    calls,                     \* calls of compute_task_risk made on df so far
    \* forecast_system_risk (its df, available_hours_per_day and
    \* planning_horizon_days are the variables above)
    capacity_scenarios,        \* the deltas passed in, or NoScenarios for None
    forecast_rows,             \* `rows`: one row per delta handled so far
    df_risk,                   \* the risk table at hand
    forecast,                  \* the frame handed back, if any
    forecast_pc,               \* "idle", "call", "loop", "returned", "raised"
    \* compute_weighted_stress (its df_risk is the variable above)
    weighted,                  \* the index handed back, in tenths
    stress_pc,                 \* "idle", "call", "returned"
    \* compute_priority_scores (its df, mode and out are the variables above)
    score_pc                   \* "idle", "call", "returned"

sched_vars == <<df_scored, daily_capacity, horizon_days, mode, tasks, remaining, day,
                schedule_rows, allocation_log, deadline_risks, pc>>

risk_vars == <<df, available_hours_per_day, planning_horizon_days, out, returned,
               raised, risk_pc, out_obj, previous, calls>>

forecast_vars == <<capacity_scenarios, forecast_rows, df_risk, forecast, forecast_pc>>

stress_vars == <<weighted, stress_pc>>

score_vars == <<score_pc>>

other_vars == <<forecast_vars, stress_vars, score_vars>>

vars == <<sched_vars, risk_vars, other_vars>>

\* ---------------------------------------------------------------- helpers

Min(a, b) == IF a <= b THEN a ELSE b

Max(a, b) == IF a >= b THEN a ELSE b

\* round(x, 2) of an exactly represented x: the nearest hundredth, a tie
\* going to the even hundredth.
Round2(x) ==
    LET q == x \div Cent
        r == x % Cent
    IN  IF 2 * r < Cent THEN q * Cent
        ELSE IF 2 * r > Cent THEN (q + 1) * Cent
        ELSE IF q % 2 = 0 THEN q * Cent
        ELSE (q + 1) * Cent

\* round(x, 2) of a float x that is not exactly the decimal the model holds:
\* `used` is the double nearest to a hundredth, so `used - daily_capacity`
\* is off by the representation error of `used`, whose sign decides a tie
\* (round(8.38 - 8.375, 2) is 0.01, round(1.38 - 1.375, 2) is 0.0).
Round2Inexact(x) ==
    IF 2 * (x % Cent) = Cent
    THEN {(x \div Cent) * Cent, ((x \div Cent) + 1) * Cent}
    ELSE {Round2(x)}

\* The rows of a table as a set of indices.
Rows(t) == 1 .. Len(t)

TaskNames(t) == {t[i].name : i \in Rows(t)}

DistinctNames(t) == \A i, j \in Rows(t) : t[i].name = t[j].name => i = j

\* ------------------------------------------------------------- sort order

\* est_hours.clip(lower=0.1)
ClipEst(e) == Max(e, 10 * Cent)

\* Mutant of DenserThan: est_hours (positive in every table drawn here) is
\* not clipped at 0.1 h.
DenserThanNoClip(a, b) ==
    a.priority_score * b.est_hours > b.priority_score * a.est_hours

\* Value density priority_score / est_hours.clip(lower=0.1), larger first,
\* compared by cross-multiplication (both denominators are positive).
DenserThan(a, b) ==
    a.priority_score * ClipEst(b.est_hours) > b.priority_score * ClipEst(a.est_hours)

\* Academic / default key: ascending (days_left, est_hours).
EarlierThan(a, b) ==
    \/ a.days_left < b.days_left
    \/ a.days_left = b.days_left /\ a.est_hours < b.est_hours

\* Mutant of Precedes: only "Academic" selects the deadline order.
PrecedesAcademicOnly(m, a, b) ==
    IF m = "Academic"
    THEN \/ a.days_left < b.days_left
         \/ a.days_left = b.days_left /\ a.est_hours < b.est_hours
    ELSE a.priority_score * Max(b.est_hours, 10 * Cent)
             > b.priority_score * Max(a.est_hours, 10 * Cent)

\* Strict precedence of row a before row b in the sorted table.
Precedes(m, a, b) == IF m = "Operational" THEN DenserThan(a, b) ELSE EarlierThan(a, b)

Permutations(n) ==
    {p \in [1 .. n -> 1 .. n] : \A i, j \in 1 .. n : p[i] = p[j] => i = j}

\* The orders sort_values can return.  The two-key sort of the default branch
\* is a stable lexsort: rows with equal keys keep the caller's order.  The
\* one-key sort of the Operational branch uses the default quicksort, which
\* promises nothing about rows with equal keys.
SortOrders(t, m) ==
    {p \in Permutations(Len(t)) :
        \A i, j \in Rows(t) :
            i < j =>
                /\ ~Precedes(m, t[p[j]], t[p[i]])
                /\ (m # "Operational" /\ ~Precedes(m, t[p[i]], t[p[j]])
                        => p[i] < p[j])}

SortedBy(t, p) == [i \in Rows(t) |-> t[p[i]]]

\* remaining = {row["name"]: float(row["est_hours"]) for each row}: a later
\* row of the sorted table overwrites an earlier one of the same name.
LastRow(t, name) ==
    CHOOSE i \in Rows(t) :
        /\ t[i].name = name
        /\ \A j \in Rows(t) : t[j].name = name => j <= i

InitialRemaining(t) == [n \in TaskNames(t) |-> t[LastRow(t, n)].est_hours]

\* fp_lookup.get(name, 0.0): the tables of this model carry no
\* failure_probability column, so fp_lookup stays empty.
FpLookupGet(name) == 0

\* ---------------------------------------------------------------- the day

\* Mutants of Take: the whole remainder whatever the capacity left, and the
\* whole capacity left whatever the remainder.
TakeAll(cap_left, rem) == rem

TakeCapacity(cap_left, rem) == cap_left

\* take = min(cap_left, remaining[task_name])
Take(cap_left, rem) == Min(cap_left, rem)

\* Mutant of Skipped: a task is passed over on its deadline day as well.
SkippedOnDeadline(row, d, rem) == rem[row.name] <= 0 \/ d >= row.days_left

\* Mutant of Skipped: the deadline guard is missing.
SkippedDoneOnly(row, d, rem) == rem[row.name] <= 0

\* The two `continue` guards: nothing left, or the deadline has passed.
Skipped(row, d, rem) == rem[row.name] <= 0 \/ d > row.days_left

LogEntry(row, d, take) ==
    [task |-> row.name, day |-> d, hours |-> Round2(take),
     failure_probability |-> FpLookupGet(row.name), deadline_day |-> row.days_left]

\* The scan of the sorted table on day d, from row i on: the state of the
\* loop when it ends, by exhaustion or by the break on cap_left <= 0.
RECURSIVE ScanTasks(_, _, _, _, _, _)
ScanTasks(i, d, rem, cap_left, allocations, log) ==
    IF i > Len(tasks)
    THEN [remaining |-> rem, cap_left |-> cap_left,
          allocations |-> allocations, log |-> log]
    ELSE
        LET row == tasks[i] IN
        IF Skipped(row, d, rem)
        THEN ScanTasks(i + 1, d, rem, cap_left, allocations, log)
        ELSE
            LET take  == Take(cap_left, rem[row.name])
                grant == take > 0
                rem2  == IF grant THEN [rem EXCEPT ![row.name] = @ - take] ELSE rem
                cap2  == IF grant THEN cap_left - take ELSE cap_left
                all2  == IF grant
                         THEN Append(allocations, <<row.name, Round2(take)>>)
                         ELSE allocations
                log2  == IF grant THEN Append(log, LogEntry(row, d, take)) ELSE log
            IN  IF cap2 <= 0
                THEN [remaining |-> rem2, cap_left |-> cap2,
                      allocations |-> all2, log |-> log2]
                ELSE ScanTasks(i + 1, d, rem2, cap2, all2, log2)

\* Mutant of Used: the whole capacity of the day is reported as used.
UsedWholeDay(cap_left) == Round2(daily_capacity)

\* used = round(daily_capacity - cap_left, 2)
Used(cap_left) == Round2(daily_capacity - cap_left)

\* round(max(0.0, used - daily_capacity), 2): the values it can take.
OverloadHours(used) == Round2Inexact(Max(0, used - daily_capacity))

\* ------------------------------------------------------------ deadline risks

\* Mutant of Unfinished: tasks due after the horizon are left out.
UnfinishedAndDue(row) == remaining[row.name] > 0 /\ row.days_left <= horizon_days

\* if remaining[name] > 0
Unfinished(row) == remaining[row.name] > 0

\* Mutant of RiskEntry: the estimate is reported, not what remains of it.
RiskEntryEst(row) ==
    [task |-> row.name,
     unfinished_hours |-> Round2(row.est_hours),
     deadline_day |-> row.days_left]

RiskEntry(row) ==
    [task |-> row.name,
     unfinished_hours |-> Round2(remaining[row.name]),
     deadline_day |-> row.days_left]

RECURSIVE RisksFrom(_, _)
RisksFrom(i, acc) ==
    IF i > Len(tasks) THEN acc
    ELSE IF Unfinished(tasks[i])
         THEN RisksFrom(i + 1, Append(acc, RiskEntry(tasks[i])))
         ELSE RisksFrom(i + 1, acc)

\* ------------------------------------------------------------------ inputs

\* priority_score is read by the Operational branch alone: the tables given
\* to the other branch all carry the same value of it.
PriorityValuesFor(m) ==
    IF m = "Operational" THEN PriorityValues
    ELSE {CHOOSE p \in PriorityValues : \A q \in PriorityValues : p <= q}

\* Row i of a table: the rows of one table bear distinct names.
TaskRow(i, m) ==
    [name : {NameList[i]}, days_left : 1 .. MaxDay,
     est_hours : EstHoursValues, priority_score : PriorityValuesFor(m)]

TaskTables(m) ==
    UNION {{t \in [1 .. n -> UNION {TaskRow(i, m) : i \in 1 .. n}] :
                \A i \in 1 .. n : t[i] \in TaskRow(i, m)} : n \in 0 .. MaxTasks}


\* ------------------------------------------------ compute_task_risk: tables

NoTable == [columns |-> {}, rows |-> <<>>, none |-> TRUE]

NoError == [type |-> "none"]

\* capacity_scenarios = None, and a list of deltas.
NoScenarios == [given |-> FALSE, deltas |-> <<>>]

Scenarios(deltas) == [given |-> TRUE, deltas |-> deltas]

\* What the caller holds before its first call has returned.
NoCall == [returned |-> NoTable, available_hours_per_day |-> 0]

\* Mutant of RequiredCols: business_impact is not asked for.
RequiredColsShort ==
    <<"name", "days_left", "est_hours", "strategic_importance", "dependency_risk">>

\* required_cols, in the order the loop visits them.
RequiredCols ==
    <<"name", "days_left", "est_hours",
      "strategic_importance", "business_impact", "dependency_risk">>

AllRequired == {"name", "days_left", "est_hours",
                "strategic_importance", "business_impact", "dependency_risk"}

\* The columns c of required_cols with `c not in out.columns`, by place.
MissingPlaces(cols) == {i \in 1 .. Len(RequiredCols) : RequiredCols[i] \notin cols}

\* The column the loop stops at: the first one missing.
FirstMissing(cols) ==
    RequiredCols[CHOOSE i \in MissingPlaces(cols) :
                     \A j \in MissingPlaces(cols) : i <= j]

\* raise KeyError(f"Missing required column: {c}")
MissingColumnError(c) ==
    [type |-> "KeyError", message |-> <<"Missing required column: ", c>>]

\* The derived columns of lines 63-68.
WindowCols == {"deadline_window_days", "capacity_before_deadline",
               "slack_hours", "overload_severity"}

\* days_left.astype(int).clip(lower=1) and est_hours.astype(float).clip(lower=0.0)
ClampDays(d) == Max(d, 1)

\* Mutant of ClampHours: est_hours is converted but not clipped.
ClampHoursNone(e) == e

ClampHours(e) == Max(e, 0)

\* Lines 57-68 on one row: the clamps and the local capacity window.
WithWindow(row, hours_per_day, horizon) ==
    LET days_left  == ClampDays(row.days_left)
        est_hours  == ClampHours(row.est_hours)
        window     == Min(days_left, horizon)
        capacity   == window * hours_per_day
        slack      == capacity - est_hours
    IN  [c \in DOMAIN row \cup WindowCols |->
            CASE c = "days_left"                -> days_left
              [] c = "est_hours"                -> est_hours
              [] c = "deadline_window_days"     -> window
              [] c = "capacity_before_deadline" -> capacity
              [] c = "slack_hours"              -> slack
              [] c = "overload_severity"        -> Max(-slack, 0)
              [] OTHER                          -> row[c]]

\* ---------------------------------------- compute_task_risk: real columns

\* The real-valued columns are carried exactly where the claims compare them
\* and to a stated precision elsewhere.  Every est_hours and every capacity
\* the risk model is given is a multiple of 1/8 h, so hours are counted in
\* eighths here.  The guard 1e-9 of lines 71 and 91 is far below one eighth:
\* a quotient is kept as the triple (num, sub, den) that stands for
\*     (num - sub * 1e-9 h) / (den + 1e-9 h),      num, den in eighths,
\* and two of them are compared by cross-multiplying and reading the
\* coefficients of 1, 1e-9 and 1e-18 in that order, which is exact as long
\* as the coefficients stay below 10^8.
Eighth == Hour \div 8

InEighths(x) == x \div Eighth

Sign(a) == IF a > 0 THEN 1 ELSE IF a < 0 THEN 0 - 1 ELSE 0

\* The sign of a0 + a1 * 1e-9 + a2 * 1e-18 (in eighths) for small integers.
SignEps(a0, a1, a2) ==
    IF a0 # 0 THEN Sign(a0) ELSE IF a1 # 0 THEN Sign(a1) ELSE Sign(a2)

\* p <= q for two such quotients.
QuotLeq(p, q) ==
    SignEps(p.num * q.den - q.num * p.den,
            (p.num - p.sub * q.den) - (q.num - q.sub * p.den),
            q.sub - p.sub) <= 0

QuotZero(q) == q.num = 0 /\ q.sub = 0

\* Mutant of OverloadNorm: the overload is multiplied by the capacity of a
\* day, not divided by it.
OverloadNormTimes(overload_severity, hours_per_day) ==
    [num |-> InEighths(overload_severity) * InEighths(hours_per_day), sub |-> 0,
     den |-> 64]

\* Line 71: overload_severity / (float(available_hours_per_day) + 1e-9).
OverloadNorm(overload_severity, hours_per_day) ==
    [num |-> InEighths(overload_severity), sub |-> 0,
     den |-> InEighths(hours_per_day)]

\* Line 76: 1.0 / days_left, as the fraction num/den.
Urgency(days_left) == [num |-> 1, den |-> days_left]

RECURSIVE SumEstHours(_, _)
\* Lines 88-90: the sum of est_hours over the rows of `rows` (the clamped
\* table) whose days_left is at most `days_left`.
SumEstHours(rows, days_left) ==
    IF rows = <<>> THEN 0
    ELSE (IF Head(rows).days_left <= days_left THEN Head(rows).est_hours ELSE 0)
         + SumEstHours(Tail(rows), days_left)

\* Mutant of CompetingHours: only the tasks due strictly earlier, and the
\* task itself.
CompetingHoursStrict(rows, row) ==
    SumEstHours(rows, row.days_left - 1) + row.est_hours

\* competing_hours of _competition_pressure(row).
CompetingHours(rows, row) == SumEstHours(rows, row.days_left)

\* Mutant of Pressure: the division is not guarded by the 1e-9.
PressureUnguarded(competing_hours, window_cap) ==
    IF competing_hours > window_cap
    THEN [num |-> InEighths(competing_hours - window_cap), sub |-> 0,
          den |-> InEighths(window_cap)]
    ELSE [num |-> 0, sub |-> 0, den |-> InEighths(window_cap)]

\* Lines 91-92: max(0.0, competing_hours / (window_cap + 1e-9) - 1.0).  The
\* difference is (competing_hours - window_cap - 1e-9) / (window_cap + 1e-9),
\* positive exactly when competing_hours exceeds window_cap by an eighth or
\* more.
Pressure(competing_hours, window_cap) ==
    IF competing_hours > window_cap
    THEN [num |-> InEighths(competing_hours - window_cap), sub |-> 1,
          den |-> InEighths(window_cap)]
    ELSE [num |-> 0, sub |-> 0, den |-> InEighths(window_cap)]

\* Line 99: dependency_risk.astype(bool).astype(int).
Dep(dependency_risk) == IF dependency_risk THEN 1 ELSE 0

\* Mutant of ImpactWeight: the two scores are added, not averaged.
ImpactWeightSum(strategic_importance, business_impact) ==
    Max(((10 * strategic_importance + 10 * business_impact) * 10) \div 5, 10)

\* Lines 104-108: (0.5 * strategic + 0.5 * impact) / 5.0, clipped below at
\* 0.1; in hundredths.
ImpactWeight(strategic_importance, business_impact) ==
    Max(((5 * strategic_importance + 5 * business_impact) * 10) \div 5, 10)

\* Lines 120-124, in tenths.
w_overload == 18

w_competition == 12

w_urgency == 11

w_dep == 7

bias == 0 - 12

\* Lines 126-132: risk_score in thousandths, rounded down.  With
\* c = capacity of a day, W = window capacity, e = 1e-9 h and
\* overload_norm = O / (c + e), competition_pressure = (P - p e) / (W + e),
\* urgency = 1 / d, the score times 10 d (c + e)(W + e) is the polynomial
\* n0 + n1 e + n2 e^2 below; k is the score in thousandths, rounded down,
\* when k * denominator <= 1000 * numerator < (k + 1) * denominator.
RiskScore(overload_norm, competition_pressure, urgency, dep) ==
    LET d  == urgency.den
        c  == overload_norm.den
        W  == competition_pressure.den
        O  == overload_norm.num
        P  == competition_pressure.num
        p  == competition_pressure.sub
        K  == (bias + w_dep * dep) * d + w_urgency
        n0 == K * c * W + w_overload * O * d * W + w_competition * d * P * c
        n1 == K * (c + W) + w_overload * O * d + w_competition * d * (P - p * c)
        n2 == K - w_competition * d * p
        d0 == 10 * d * c * W
        d1 == 10 * d * (c + W)
        d2 == 10 * d
        k0 == (1000 * n0) \div d0
        AtMost(k) == SignEps(k * d0 - 1000 * n0, k * d1 - 1000 * n1,
                             k * d2 - 1000 * n2) <= 0
    IN  CHOOSE k \in {k0 - 1, k0, k0 + 1} : AtMost(k) /\ ~AtMost(k + 1)

\* 1 / (1 + exp(-x)) at x = -1.25, -1.00, ..., 9.75, in ten-thousandths.
SigmoidKnots ==
    <<2227, 2689, 3208, 3775, 4378, 5000, 5622, 6225, 6792, 7311, 7773, 8176,
      8520, 8808, 9047, 9241, 9399, 9526, 9627, 9707, 9770, 9820, 9859, 9890,
      9914, 9933, 9948, 9959, 9968, 9975, 9981, 9985, 9988, 9991, 9993, 9994,
      9996, 9997, 9997, 9998, 9998, 9999, 9999, 9999, 9999>>

\* Lines 5-6: _sigmoid of a score given in thousandths, in ten-thousandths:
\* read off the knots and interpolated between them, which is within 0.001
\* of the function.  risk_score is above -1.2 (the bias) for every table.
Sigmoid(x) ==
    IF x >= 9750 THEN 10000
    ELSE IF x < 0 - 1250 THEN 0
    ELSE LET i == ((x + 1250) \div 250) + 1
             at == 250 * (i - 1) - 1250
         IN  SigmoidKnots[i]
                 + ((SigmoidKnots[i + 1] - SigmoidKnots[i]) * (x - at)) \div 250

\* Series.clip(lower, upper)
Clip(x, lower, upper) == Max(lower, Min(x, upper))

\* The derived columns of lines 71-140.
ScoreCols == {"overload_norm", "urgency", "competition_pressure", "dep",
              "impact_weight", "risk_score", "failure_probability",
              "expected_impact", "expected_loss_hours"}

\* Lines 71-140 on the row `row` of `rows`, the table after lines 57-68.
\* failure_probability is in ten-thousandths, expected_impact in millionths
\* and expected_loss_hours in ten-thousandths of the unit of est_hours.
WithScores(rows, row, hours_per_day) ==
    LET overload_norm        == OverloadNorm(row.overload_severity, hours_per_day)
        urgency              == Urgency(row.days_left)
        competition_pressure == Pressure(CompetingHours(rows, row),
                                         row.capacity_before_deadline)
        dep                  == Dep(row.dependency_risk)
        impact_weight        == ImpactWeight(row.strategic_importance,
                                             row.business_impact)
        risk_score           == RiskScore(overload_norm, competition_pressure,
                                          urgency, dep)
        failure_probability  == Clip(Sigmoid(risk_score), 0, 10000)
    IN  [c \in DOMAIN row \cup ScoreCols |->
            CASE c = "overload_norm"        -> overload_norm
              [] c = "urgency"              -> urgency
              [] c = "competition_pressure" -> competition_pressure
              [] c = "dep"                  -> dep
              [] c = "impact_weight"        -> impact_weight
              [] c = "risk_score"           -> risk_score
              [] c = "failure_probability"  -> failure_probability
              [] c = "expected_impact"      -> failure_probability * impact_weight
              [] c = "expected_loss_hours"  -> failure_probability * row.est_hours
              [] OTHER                      -> row[c]]

\* Lines 57-140 on a table that has every required column.
TaskRisk(table, hours_per_day, horizon) ==
    LET windowed == [i \in 1 .. Len(table.rows) |->
                        WithWindow(table.rows[i], hours_per_day, horizon)]
    IN  [columns |-> table.columns \cup WindowCols \cup ScoreCols,
         rows |-> [i \in 1 .. Len(windowed) |->
                      WithScores(windowed, windowed[i], hours_per_day)]]

\* Mutant of DataFrameCopy: no copy is made, `out` is the caller's table.
NoCopy(obj) == obj

\* Line 47: df.copy() is a new object.
DataFrameCopy(obj) == "fresh"

\* ------------------------------------------ compute_task_risk: the inputs

\* available_hours_per_day: 0.375 h, 1 h and 4 h.
RiskCapacityValues == CapacityValues \cup {Hour}

\* strategic_importance and business_impact of row i, and its
\* dependency_risk: the least, the greatest and a middle weight.
ImportanceList == <<1, 5, 3, 2>>

DependencyList == <<FALSE, TRUE, FALSE, TRUE>>

\* Rows of the input of compute_task_risk: row i with every required column.
RiskRow(i) ==
    [name : {NameList[i]}, days_left : {0, 1, MaxDay},
     est_hours : {0 - Hour, (3 * Hour) \div 8, 5 * Hour},
     strategic_importance : {ImportanceList[i]},
     business_impact : {ImportanceList[i]},
     dependency_risk : {DependencyList[i]}]

Restrict(row, cols) == [c \in cols |-> row[c]]

\* Tables of one to MaxTasks rows over any set of the required columns; the
\* application computes nothing for an empty task list (src/app.py).
RiskTables ==
    UNION {UNION {{[columns |-> cols,
                    rows |-> [i \in 1 .. n |-> Restrict(t[i], cols)]] :
                      t \in {u \in [1 .. n -> UNION {RiskRow(i) : i \in 1 .. n}] :
                                \A i \in 1 .. n : u[i] \in RiskRow(i)}} :
                  n \in 1 .. MaxTasks} :
           cols \in SUBSET AllRequired}

\* The single task of the end-to-end scenarios A and B, which are run at 6
\* and at 3 hours a day over a horizon of 7 days.
ScenarioTable ==
    [columns |-> AllRequired,
     rows |-> <<[name |-> "A", days_left |-> 1, est_hours |-> 4 * Hour,
                 strategic_importance |-> 3, business_impact |-> 3,
                 dependency_risk |-> FALSE]>>]

ScenarioCapacityValues == {3 * Hour, 6 * Hour}

\* ----------------------------------------------------------------- actions

\* forecast_system_risk, compute_weighted_stress and compute_priority_scores
\* are not under way.
OthersIdle ==
    /\ capacity_scenarios = NoScenarios
    /\ forecast_rows = <<>>
    /\ df_risk = NoTable
    /\ forecast = NoTable
    /\ forecast_pc = "idle"
    /\ weighted = 0
    /\ stress_pc = "idle"
    /\ score_pc = "idle"

\* No call of compute_task_risk is under way.
RiskIdle ==
    /\ df = [columns |-> {}, rows |-> <<>>]
    /\ available_hours_per_day = 0
    /\ planning_horizon_days = 0
    /\ out = NoTable
    /\ returned = NoTable
    /\ raised = NoError
    /\ risk_pc = "idle"
    /\ out_obj = "none"
    /\ previous = NoCall
    /\ calls = 0

Init ==
    /\ RiskIdle
    /\ OthersIdle
    /\ mode \in Modes
    /\ df_scored \in TaskTables(mode)
    /\ daily_capacity \in CapacityValues
    /\ horizon_days \in 1 .. MaxDay
    /\ tasks = <<>>
    /\ remaining = <<>>
    /\ day = 0
    /\ schedule_rows = <<>>
    /\ allocation_log = <<>>
    /\ deadline_risks = <<>>
    /\ pc = "call"

\* Lines 22-52: copy and sort the table, set up the per-task state.
Prepare ==
    /\ pc = "call"
    /\ \E p \in SortOrders(df_scored, mode) :
          tasks' = SortedBy(df_scored, p)
    /\ remaining' = InitialRemaining(tasks')
    /\ day' = 1
    /\ pc' = "days"
    /\ UNCHANGED <<df_scored, daily_capacity, horizon_days, mode,
                   schedule_rows, allocation_log, deadline_risks>>
    /\ UNCHANGED <<risk_vars, other_vars>>

\* Lines 57-95: one iteration of the day loop.
RunDay ==
    /\ pc = "days"
    /\ day <= horizon_days
    /\ LET s    == ScanTasks(1, day, remaining, daily_capacity, <<>>, allocation_log)
           used == Used(s.cap_left)
       IN  /\ remaining' = s.remaining
           /\ allocation_log' = s.log
           /\ \E overload \in OverloadHours(used) :
                 schedule_rows' = Append(schedule_rows,
                     [day |-> day,
                      allocated_hours |-> used,
                      remaining_capacity |-> Round2(s.cap_left),
                      allocations |-> s.allocations,
                      overload_hours |-> overload])
    /\ day' = day + 1
    /\ UNCHANGED <<df_scored, daily_capacity, horizon_days, mode, tasks,
                   deadline_risks, pc>>
    /\ UNCHANGED <<risk_vars, other_vars>>

\* Lines 100-114: the deadline-risk pass and the return.
Finish ==
    /\ pc = "days"
    /\ day > horizon_days
    /\ deadline_risks' = RisksFrom(1, <<>>)
    /\ pc' = "done"
    /\ UNCHANGED <<df_scored, daily_capacity, horizon_days, mode, tasks,
                   remaining, day, schedule_rows, allocation_log>>
    /\ UNCHANGED <<risk_vars, other_vars>>

Next == Prepare \/ RunDay \/ Finish

Spec == Init /\ [][Next]_vars

\* ------------------------------------- build_schedule: tables of any names

\* Names are not checked by build_schedule: two rows may bear the same one.
\* The hours of these tables lie on the grid of round(x, 2) (1 h and 5 h of
\* work, 4 h a day), so that no hundredth is lost to rounding in their runs.
DupNames == {"A", "B"}

DupEstHoursValues == {Hour, 5 * Hour}

DupCapacityValues == {4 * Hour}

DupRow(m) ==
    [name : DupNames, days_left : 1 .. MaxDay,
     est_hours : DupEstHoursValues, priority_score : PriorityValuesFor(m)]

DupTables(m) == UNION {[1 .. n -> DupRow(m)] : n \in 0 .. MaxTasks}

DupInit ==
    /\ RiskIdle
    /\ OthersIdle
    /\ mode \in Modes
    /\ df_scored \in DupTables(mode)
    /\ daily_capacity \in DupCapacityValues
    /\ horizon_days \in 1 .. MaxDay
    /\ tasks = <<>>
    /\ remaining = <<>>
    /\ day = 0
    /\ schedule_rows = <<>>
    /\ allocation_log = <<>>
    /\ deadline_risks = <<>>
    /\ pc = "call"

SpecDup == DupInit /\ [][Next]_vars

\* -------------------------------------------- build_schedule: float hours

\* The hours of build_schedule are Python floats, IEEE 754 doubles.  On the
\* tables above every difference the code takes is exact.  It is not on
\* hours such as 0.2 or 0.9, which are no binary fractions: the tables below
\* carry such hours, and their arithmetic is that of the doubles, bit for
\* bit.  A double d with 2^-4 <= d < 8, and every difference of two such
\* doubles, is a whole number N < 2^59 of units of 2^-56 h; it is kept as two
\* limbs, N = hi * 2^30 + lo with 0 <= lo < 2^30.
Limb == 2 ^ 30

Double(hi, lo) == [hi |-> hi, lo |-> lo]

\* float("0.k") for k tenths of an hour, and float("1.0"): the doubles
\* 0x1.999999999999ap-3, 0x1.3333333333333p-2, 0x1.999999999999ap-2,
\* 0x1.0p-1, 0x1.ccccccccccccdp-1 and 0x1.0p+0.
Tenths(k) ==
    CASE k = 2  -> Double(13421772, 858993460)
      [] k = 3  -> Double(20132659, 214748364)
      [] k = 4  -> Double(26843545, 644245096)
      [] k = 5  -> Double(33554432, 0)
      [] k = 9  -> Double(60397977, 644245096)
      [] k = 10 -> Double(67108864, 0)

DoubleLeq(a, b) == a.hi < b.hi \/ (a.hi = b.hi /\ a.lo <= b.lo)

DoubleLess(a, b) == ~DoubleLeq(b, a)

\* d > 0 and its negation d <= 0 (no double of the model is negative).
DoublePositive(a) == a.hi > 0 \/ a.lo > 0

\* min(a, b)
DoubleMin(a, b) == IF DoubleLess(b, a) THEN b ELSE a

RECURSIVE BitLength(_)
BitLength(n) == IF n = 0 THEN 0 ELSE 1 + BitLength(n \div 2)

\* The number of significant bits of N.
Bits(a) == IF a.hi > 0 THEN 30 + BitLength(a.hi) ELSE BitLength(a.lo)

\* The double nearest to N units: N cut to 53 significant bits, to the
\* nearest, a tie going to the even one (at most 6 bits are cut).
RoundToDouble(a) ==
    LET ulp  == 2 ^ Max(Bits(a) - 53, 0)
        rem  == a.lo % ulp
        down == a.lo - rem
        up   == down + ulp
        lo2  == IF 2 * rem < ulp THEN down
                ELSE IF 2 * rem > ulp THEN up
                ELSE IF (down \div ulp) % 2 = 0 THEN down
                ELSE up
    IN  IF lo2 = Limb THEN Double(a.hi + 1, 0) ELSE Double(a.hi, lo2)

\* a - b in float arithmetic, for a >= b.
DoubleMinus(a, b) ==
    LET borrow == IF a.lo < b.lo THEN 1 ELSE 0
    IN  RoundToDouble(Double(a.hi - b.hi - borrow, a.lo - b.lo + borrow * Limb))

\* 100 * x for a limb x, as carry * 2^30 + rest, by halves of 15 bits.
TimesHundred(x) ==
    LET p0  == 100 * (x % (2 ^ 15))
        p1  == (100 * (x \div (2 ^ 15))) + (p0 \div (2 ^ 15))
    IN  [carry |-> p1 \div (2 ^ 15),
         rest  |-> ((p1 % (2 ^ 15)) * (2 ^ 15)) + (p0 % (2 ^ 15))]

\* round(d, 2) of a double d, in the units of Round2: the hundredth nearest
\* to the exact value of d, a tie going to the even hundredth.  100 * N is
\* top * 2^60 + mid * 2^30 + low, and one hundredth of an hour is 2^56 units.
DoubleRound2(a) ==
    LET l    == TimesHundred(a.lo)
        h    == TimesHundred(a.hi)
        m    == h.rest + l.carry
        mid  == m % Limb
        top  == h.carry + (m \div Limb)
        low  == l.rest
        n    == (top * 16) + (mid \div (2 ^ 26))
        frac == mid % (2 ^ 26)
        half == 2 ^ 25
    IN  IF frac < half THEN n * Cent
        ELSE IF frac > half \/ low > 0 THEN (n + 1) * Cent
        ELSE IF n % 2 = 0 THEN n * Cent
        ELSE (n + 1) * Cent

\* Largest number of rows of a table of float hours.
MaxFloatTasks == 3

\* est_hours of the rows, by place: 0.2 h, 0.3 h, 0.4 h, 0.5 h, 0.2 h.
FloatEstList == <<Tenths(2), Tenths(3), Tenths(4), Tenths(5), Tenths(2)>>

\* daily_capacity: 0.9 h and 1 h.
FloatCapacityValues == {Tenths(9), Tenths(10)}

\* The branch of line 27 divides priority_score by est_hours; the tables of
\* float hours go through the other branch alone.
FloatModes == Modes \ {"Operational"}

FloatRow(i) ==
    [name : {NameList[i]}, days_left : 1 .. MaxDay,
     est_hours : {FloatEstList[i]}, priority_score : PriorityValuesFor("Academic")]

FloatTables ==
    UNION {{t \in [1 .. n -> UNION {FloatRow(i) : i \in 1 .. n}] :
                \A i \in 1 .. n : t[i] \in FloatRow(i)} : n \in 0 .. MaxFloatTasks}

\* Academic / default key on float hours: ascending (days_left, est_hours).
EarlierThanFloat(a, b) ==
    \/ a.days_left < b.days_left
    \/ a.days_left = b.days_left /\ DoubleLess(a.est_hours, b.est_hours)

\* The order of the stable two-key sort of lines 33-35.
SortOrdersFloat(t) ==
    {p \in Permutations(Len(t)) :
        \A i, j \in Rows(t) :
            i < j =>
                /\ ~EarlierThanFloat(t[p[j]], t[p[i]])
                /\ (~EarlierThanFloat(t[p[i]], t[p[j]]) => p[i] < p[j])}

SkippedFloat(row, d, rem) == ~DoublePositive(rem[row.name]) \/ d > row.days_left

LogEntryFloat(row, d, take) ==
    [task |-> row.name, day |-> d, hours |-> DoubleRound2(take),
     failure_probability |-> FpLookupGet(row.name), deadline_day |-> row.days_left]

\* The scan of lines 61-85 on float hours.
RECURSIVE ScanTasksFloat(_, _, _, _, _, _)
ScanTasksFloat(i, d, rem, cap_left, allocations, log) ==
    IF i > Len(tasks)
    THEN [remaining |-> rem, cap_left |-> cap_left,
          allocations |-> allocations, log |-> log]
    ELSE
        LET row == tasks[i] IN
        IF SkippedFloat(row, d, rem)
        THEN ScanTasksFloat(i + 1, d, rem, cap_left, allocations, log)
        ELSE
            LET take  == DoubleMin(cap_left, rem[row.name])
                grant == DoublePositive(take)
                rem2  == IF grant
                         THEN [rem EXCEPT ![row.name] = DoubleMinus(@, take)]
                         ELSE rem
                cap2  == IF grant THEN DoubleMinus(cap_left, take) ELSE cap_left
                all2  == IF grant
                         THEN Append(allocations, <<row.name, DoubleRound2(take)>>)
                         ELSE allocations
                log2  == IF grant THEN Append(log, LogEntryFloat(row, d, take)) ELSE log
            IN  IF ~DoublePositive(cap2)
                THEN [remaining |-> rem2, cap_left |-> cap2,
                      allocations |-> all2, log |-> log2]
                ELSE ScanTasksFloat(i + 1, d, rem2, cap2, all2, log2)

\* used = round(daily_capacity - cap_left, 2)
UsedFloat(cap_left) == DoubleRound2(DoubleMinus(daily_capacity, cap_left))

\* round(max(0.0, used - daily_capacity), 2), for a daily_capacity that is
\* a whole number of hundredths (used is one by construction, and two
\* doubles nearest to hundredths differ by that many hundredths, to within
\* 1e-15).
OverloadHoursFloat(used) == Max(0, used - DoubleRound2(daily_capacity))

RiskEntryFloat(row) ==
    [task |-> row.name,
     unfinished_hours |-> DoubleRound2(remaining[row.name]),
     deadline_day |-> row.days_left]

RECURSIVE RisksFromFloat(_, _)
RisksFromFloat(i, acc) ==
    IF i > Len(tasks) THEN acc
    ELSE IF DoublePositive(remaining[tasks[i].name])
         THEN RisksFromFloat(i + 1, Append(acc, RiskEntryFloat(tasks[i])))
         ELSE RisksFromFloat(i + 1, acc)

FloatInit ==
    /\ RiskIdle
    /\ OthersIdle
    /\ mode \in FloatModes
    /\ df_scored \in FloatTables
    /\ daily_capacity \in FloatCapacityValues
    /\ horizon_days \in 1 .. MaxDay
    /\ tasks = <<>>
    /\ remaining = <<>>
    /\ day = 0
    /\ schedule_rows = <<>>
    /\ allocation_log = <<>>
    /\ deadline_risks = <<>>
    /\ pc = "call"

\* Lines 22-52 on float hours (mode is not "Operational").
PrepareFloat ==
    /\ pc = "call"
    /\ mode # "Operational"
    /\ \E p \in SortOrdersFloat(df_scored) :
          tasks' = SortedBy(df_scored, p)
    /\ remaining' = InitialRemaining(tasks')
    /\ day' = 1
    /\ pc' = "days"
    /\ UNCHANGED <<df_scored, daily_capacity, horizon_days, mode,
                   schedule_rows, allocation_log, deadline_risks>>
    /\ UNCHANGED <<risk_vars, other_vars>>

\* Lines 57-95 on float hours: one iteration of the day loop.
RunDayFloat ==
    /\ pc = "days"
    /\ day <= horizon_days
    /\ LET s    == ScanTasksFloat(1, day, remaining, daily_capacity, <<>>,
                                  allocation_log)
           used == UsedFloat(s.cap_left)
       IN  /\ remaining' = s.remaining
           /\ allocation_log' = s.log
           /\ schedule_rows' = Append(schedule_rows,
                  [day |-> day,
                   allocated_hours |-> used,
                   remaining_capacity |-> DoubleRound2(s.cap_left),
                   allocations |-> s.allocations,
                   overload_hours |-> OverloadHoursFloat(used)])
    /\ day' = day + 1
    /\ UNCHANGED <<df_scored, daily_capacity, horizon_days, mode, tasks,
                   deadline_risks, pc>>
    /\ UNCHANGED <<risk_vars, other_vars>>

\* Lines 100-114 on float hours.
FinishFloat ==
    /\ pc = "days"
    /\ day > horizon_days
    /\ deadline_risks' = RisksFromFloat(1, <<>>)
    /\ pc' = "done"
    /\ UNCHANGED <<df_scored, daily_capacity, horizon_days, mode, tasks,
                   remaining, day, schedule_rows, allocation_log>>
    /\ UNCHANGED <<risk_vars, other_vars>>

NextFloat == PrepareFloat \/ RunDayFloat \/ FinishFloat

SpecFloat == FloatInit /\ [][NextFloat]_vars


\* ------------------------------------------------ compute_task_risk: actions

\* No call of build_schedule is under way.
SchedIdle ==
    /\ df_scored = <<>>
    /\ daily_capacity = 0
    /\ horizon_days = 0
    /\ mode = "Academic"
    /\ tasks = <<>>
    /\ remaining = <<>>
    /\ day = 0
    /\ schedule_rows = <<>>
    /\ allocation_log = <<>>
    /\ deadline_risks = <<>>
    /\ pc = "idle"

RiskInit ==
    /\ SchedIdle
    /\ OthersIdle
    /\ \/ /\ df \in RiskTables
          /\ available_hours_per_day \in RiskCapacityValues
          /\ planning_horizon_days \in 1 .. MaxDay
       \/ /\ df = ScenarioTable
          /\ available_hours_per_day \in ScenarioCapacityValues
          /\ planning_horizon_days = 7
    /\ out = NoTable
    /\ returned = NoTable
    /\ raised = NoError
    /\ risk_pc = "call"
    /\ out_obj = "none"
    /\ previous = NoCall
    /\ calls = 1

\* Lines 47-55 when a required column is missing: the copy, then the raise.
RaiseMissing ==
    /\ risk_pc = "call"
    /\ MissingPlaces(df.columns) # {}
    /\ out' = df
    /\ out_obj' = DataFrameCopy("caller")
    /\ raised' = MissingColumnError(FirstMissing(df.columns))
    /\ risk_pc' = "raised"
    /\ UNCHANGED <<df, available_hours_per_day, planning_horizon_days, returned,
                   previous, calls>>
    /\ UNCHANGED <<sched_vars, other_vars>>

\* Lines 47-55 when every required column is there.
CheckColumns ==
    /\ risk_pc = "call"
    /\ MissingPlaces(df.columns) = {}
    /\ out' = df
    /\ out_obj' = DataFrameCopy("caller")
    /\ risk_pc' = "checked"
    /\ UNCHANGED <<df, available_hours_per_day, planning_horizon_days, returned,
                   raised, previous, calls>>
    /\ UNCHANGED <<sched_vars, other_vars>>

\* Lines 57-142: the clamps, the capacity window and the scores of each row,
\* assigned column by column to the object `out` names, and the return.
DeriveColumns ==
    /\ risk_pc = "checked"
    /\ LET table == TaskRisk(out, available_hours_per_day, planning_horizon_days)
       IN  /\ out' = table
           /\ returned' = table
           /\ df' = IF out_obj = "caller" THEN table ELSE df
    /\ risk_pc' = "returned"
    /\ UNCHANGED <<available_hours_per_day, planning_horizon_days, raised,
                   out_obj, previous, calls>>
    /\ UNCHANGED <<sched_vars, other_vars>>

\* The caller keeps the table it got and calls again on the same table
\* object with the same horizon, at the same or another capacity, as the
\* loop of forecast_system_risk does (lines 182-184).
CallAgain ==
    /\ risk_pc = "returned"
    /\ calls < MaxCalls
    /\ previous' = [returned |-> returned,
                    available_hours_per_day |-> available_hours_per_day]
    /\ available_hours_per_day' \in RiskCapacityValues
    /\ out' = NoTable
    /\ out_obj' = "none"
    /\ returned' = NoTable
    /\ calls' = calls + 1
    /\ risk_pc' = "call"
    /\ UNCHANGED <<df, planning_horizon_days, raised>>
    /\ UNCHANGED <<sched_vars, other_vars>>

RiskNext == RaiseMissing \/ CheckColumns \/ DeriveColumns \/ CallAgain

SpecRisk == RiskInit /\ [][RiskNext]_vars

\* ------------------------------------------------- compute_weighted_stress

\* The nearest integer to a / b (a >= 0, b > 0), a tie going to the even one:
\* round(x, 1) of a value x counted in tenths.
RoundHalfEven(a, b) ==
    LET q == a \div b
        r == a % b
    IN  IF 2 * r < b THEN q
        ELSE IF 2 * r > b THEN q + 1
        ELSE IF q % 2 = 0 THEN q ELSE q + 1

RECURSIVE SumColumn(_, _)
\* Series.sum() of the column c of the rows t.
SumColumn(t, c) == IF t = <<>> THEN 0 ELSE Head(t)[c] + SumColumn(Tail(t), c)

RECURSIVE SumProduct(_, _, _)
\* (Series * Series).sum() of the columns c1 and c2 of the rows t.
SumProduct(t, c1, c2) ==
    IF t = <<>> THEN 0
    ELSE Head(t)[c1] * Head(t)[c2] + SumProduct(Tail(t), c1, c2)

\* Mutant of WeightedStress: the index is not rounded to one decimal but cut
\* to a whole number.
WholeStress(table) ==
    LET w == SumColumn(table.rows, "impact_weight")
        pw == SumProduct(table.rows, "failure_probability", "impact_weight")
    IN  IF pw = 0 THEN 0 ELSE 10 * (pw \div (100 * w))

\* Lines 156-159, in tenths: round(100 * (p * w).sum() / (w.sum() + 1e-9), 1)
\* for p in ten-thousandths and w in hundredths.  The value rounded is
\* pw / (10 * w) tenths made smaller by the 1e-9 in the divisor, by less
\* than any distance between two values of pw / (10 * w) and the halves they
\* are rounded at: a value that would sit on a half is rounded down, any
\* other to the nearest tenth.
WeightedStress(table) ==
    LET w  == SumColumn(table.rows, "impact_weight")
        pw == SumProduct(table.rows, "failure_probability", "impact_weight")
    IN  IF pw = 0 THEN 0 ELSE (2 * pw + 10 * w - 1) \div (20 * w)

\* ------------------------------------- compute_weighted_stress: the call

\* failure_probability of a row, in ten-thousandths: 0, 1/16, 3/16, 0.4751,
\* 0.7109 and 1.
ProbabilityValues == {0, 625, 1875, 4751, 7109, 10000}

\* impact_weight of a row, in hundredths: 0.1, 0.2, 0.6 and 1.0.
WeightValues == {10, 20, 60, 100}

\* Risk tables of up to MaxTasks rows, as far as compute_weighted_stress
\* reads them.
StressTables ==
    UNION {{[columns |-> {"failure_probability", "impact_weight"}, rows |-> t] :
               t \in [1 .. n -> [failure_probability : ProbabilityValues,
                                 impact_weight : WeightValues]]} :
           n \in 0 .. MaxTasks}

StressInit ==
    /\ SchedIdle
    /\ RiskIdle
    /\ capacity_scenarios = NoScenarios
    /\ forecast_rows = <<>>
    /\ df_risk \in StressTables
    /\ forecast = NoTable
    /\ forecast_pc = "idle"
    /\ weighted = 0
    /\ stress_pc = "call"
    /\ score_pc = "idle"

\* Lines 156-159.
ComputeWeightedStress ==
    /\ stress_pc = "call"
    /\ weighted' = WeightedStress(df_risk)
    /\ stress_pc' = "returned"
    /\ UNCHANGED <<sched_vars, risk_vars, forecast_vars, score_vars>>

StressNext == ComputeWeightedStress

SpecStress == StressInit /\ [][StressNext]_vars

\* ---------------------------------------------------- forecast_system_risk

\* Line 179: the default deltas, in hours.
DefaultScenarios == <<0 - 2 * Hour, 0 - Hour, 0, Hour, 2 * Hour>>

\* Longest list of deltas passed in.
MaxDeltas == 2

\* The deltas passed in: -2 h, 0 and +1 h.
DeltaValues == {0 - 2 * Hour, 0, Hour}

\* Every list of at most MaxDeltas deltas, the empty one too.
DeltaLists == UNION {[1 .. n -> DeltaValues] : n \in 0 .. MaxDeltas}

\* The rows of the table given to forecast_system_risk.
ForecastRow(i) ==
    [name : {NameList[i]}, days_left : {1, MaxDay},
     est_hours : {(3 * Hour) \div 8, 5 * Hour},
     strategic_importance : {ImportanceList[i]},
     business_impact : {ImportanceList[i]},
     dependency_risk : {DependencyList[i]}]

\* Tables of one to MaxTasks rows with every required column, and the same
\* without business_impact.
ForecastTables ==
    UNION {UNION {{[columns |-> cols,
                    rows |-> [i \in 1 .. n |-> Restrict(t[i], cols)]] :
                      t \in {u \in [1 .. n -> UNION {ForecastRow(i) : i \in 1 .. n}] :
                                \A i \in 1 .. n : u[i] \in ForecastRow(i)}} :
                  n \in 1 .. MaxTasks} :
           cols \in {AllRequired, AllRequired \ {"business_impact"}}}

\* Line 183: cap = max(1.0, float(available_hours_per_day) + float(delta)).
Cap(hours_per_day, delta) == Max(Hour, hours_per_day + delta)

\* Line 188: the share of rows with failure_probability >= 0.7, in tenths of
\* a percent, rounded to the nearest.
HighRiskPct(table) ==
    RoundHalfEven(1000 * Cardinality({i \in DOMAIN table.rows :
                                         table.rows[i].failure_probability >= 7000}),
                  Len(table.rows))

\* Line 187: the sum of expected_loss_hours, in tenths of an hour, rounded
\* to the nearest.
LossHours(table) ==
    RoundHalfEven(SumColumn(table.rows, "expected_loss_hours"), 1000 * Hour)

\* Lines 186-196: the row appended for one delta.
ForecastRowOf(table, cap, delta) ==
    [capacity_hours_per_day |-> cap,
     capacity_delta         |-> delta,
     stress_index           |-> WeightedStress(table),
     expected_loss_hours    |-> LossHours(table),
     high_risk_tasks_pct    |-> HighRiskPct(table)]

\* Line 198: the orders sort_values("capacity_hours_per_day") can leave the
\* rows in: ascending, rows of equal capacity in any order.
CapacityOrders(t) ==
    {p \in Permutations(Len(t)) :
        \A i, j \in 1 .. Len(t) :
            i < j => t[p[i]].capacity_hours_per_day <= t[p[j]].capacity_hours_per_day}

\* pd.DataFrame([]) has no columns: sorting it by one raises.
NoSuchColumnError == [type |-> "KeyError", message |-> <<"capacity_hours_per_day">>]

ForecastInit ==
    /\ SchedIdle
    /\ df \in ForecastTables
    /\ available_hours_per_day \in CapacityValues
    /\ planning_horizon_days \in 1 .. MaxDay
    /\ out = NoTable
    /\ returned = NoTable
    /\ raised = NoError
    /\ risk_pc = "idle"
    /\ out_obj = "none"
    /\ previous = NoCall
    /\ calls = 0
    /\ capacity_scenarios \in {NoScenarios} \cup {Scenarios(d) : d \in DeltaLists}
    /\ forecast_rows = <<>>
    /\ df_risk = NoTable
    /\ forecast = NoTable
    /\ forecast_pc = "call"
    /\ weighted = 0
    /\ stress_pc = "idle"
    /\ score_pc = "idle"

\* Lines 178-181: the default deltas for None, the empty list of rows.
ForecastBegin ==
    /\ forecast_pc = "call"
    /\ capacity_scenarios' = IF capacity_scenarios.given THEN capacity_scenarios
                             ELSE Scenarios(DefaultScenarios)
    /\ forecast_rows' = <<>>
    /\ forecast_pc' = "loop"
    /\ UNCHANGED <<df_risk, forecast>>
    /\ UNCHANGED <<sched_vars, risk_vars, stress_vars, score_vars>>

\* Lines 182-196: one turn of the loop, for the next delta; the call of
\* compute_task_risk works on a copy and returns.
ForecastDelta ==
    /\ forecast_pc = "loop"
    /\ Len(forecast_rows) < Len(capacity_scenarios.deltas)
    /\ MissingPlaces(df.columns) = {}
    /\ LET delta == capacity_scenarios.deltas[Len(forecast_rows) + 1]
           cap   == Cap(available_hours_per_day, delta)
           table == TaskRisk(df, cap, planning_horizon_days)
       IN  /\ df_risk' = table
           /\ forecast_rows' = Append(forecast_rows, ForecastRowOf(table, cap, delta))
    /\ UNCHANGED <<capacity_scenarios, forecast, forecast_pc>>
    /\ UNCHANGED <<sched_vars, risk_vars, stress_vars, score_vars>>

\* Lines 182-184 when compute_task_risk raises: the error goes to the caller.
ForecastDeltaRaises ==
    /\ forecast_pc = "loop"
    /\ Len(forecast_rows) < Len(capacity_scenarios.deltas)
    /\ MissingPlaces(df.columns) # {}
    /\ raised' = MissingColumnError(FirstMissing(df.columns))
    /\ forecast_pc' = "raised"
    /\ UNCHANGED <<df, available_hours_per_day, planning_horizon_days, out,
                   returned, risk_pc, out_obj, previous, calls>>
    /\ UNCHANGED <<capacity_scenarios, forecast_rows, df_risk, forecast>>
    /\ UNCHANGED <<sched_vars, stress_vars, score_vars>>

\* Line 198 after at least one turn: the rows sorted by capacity.
ForecastReturn ==
    /\ forecast_pc = "loop"
    /\ Len(forecast_rows) = Len(capacity_scenarios.deltas)
    /\ forecast_rows # <<>>
    /\ \E p \in CapacityOrders(forecast_rows) :
          forecast' = [columns |-> DOMAIN forecast_rows[1],
                       rows |-> SortedBy(forecast_rows, p)]
    /\ forecast_pc' = "returned"
    /\ UNCHANGED <<capacity_scenarios, forecast_rows, df_risk>>
    /\ UNCHANGED <<sched_vars, risk_vars, stress_vars, score_vars>>

\* Line 198 after no turn at all: the frame has no column to sort by.
ForecastSortRaises ==
    /\ forecast_pc = "loop"
    /\ Len(forecast_rows) = Len(capacity_scenarios.deltas)
    /\ forecast_rows = <<>>
    /\ raised' = NoSuchColumnError
    /\ forecast_pc' = "raised"
    /\ UNCHANGED <<df, available_hours_per_day, planning_horizon_days, out,
                   returned, risk_pc, out_obj, previous, calls>>
    /\ UNCHANGED <<capacity_scenarios, forecast_rows, df_risk, forecast>>
    /\ UNCHANGED <<sched_vars, stress_vars, score_vars>>

ForecastNext ==
    \/ ForecastBegin
    \/ ForecastDelta
    \/ ForecastDeltaRaises
    \/ ForecastReturn
    \/ ForecastSortRaises

SpecForecast == ForecastInit /\ [][ForecastNext]_vars

\* -------------------------------------------------- compute_priority_scores

\* The scores are fractions num / den of small integers (den > 0), kept in
\* lowest terms; the weights are in hundredths.
RECURSIVE GCD(_, _)
GCD(a, b) == IF b = 0 THEN a ELSE GCD(b, a % b)

Frac(n, d) ==
    LET g == GCD(IF n < 0 THEN 0 - n ELSE n, d)
    IN  [num |-> n \div g, den |-> d \div g]

FracAdd(a, b) == Frac(a.num * b.den + b.num * a.den, a.den * b.den)

FracTimes(a, b) == Frac(a.num * b.num, a.den * b.den)

FracLeq(a, b) == a.num * b.den <= b.num * a.den

\* Lines 15-16: raw = 1.0 / max(days_left, 1); min(raw, 1.0).
compute_urgency_score(days_left) ==
    LET raw == Frac(1, Max(days_left, 1))
    IN  IF FracLeq(raw, Frac(1, 1)) THEN raw ELSE Frac(1, 1)

\* Mutant of Weights: any mode but "Operational" is taken for the default
\* mode, "Academic".
WeightsNoFallback(m) ==
    IF m = "Operational"
    THEN [w_strat |-> Frac(35, 100), w_impact |-> Frac(35, 100),
          w_urg |-> Frac(20, 100), w_dep |-> Frac(10, 100)]
    ELSE [w_strat |-> Frac(10, 100), w_impact |-> Frac(5, 100),
          w_urg |-> Frac(70, 100), w_dep |-> Frac(15, 100)]

\* Lines 50-72: the weights of the mode.
Weights(m) ==
    IF m = "Academic"
    THEN [w_strat |-> Frac(10, 100), w_impact |-> Frac(5, 100),
          w_urg |-> Frac(70, 100), w_dep |-> Frac(15, 100)]
    ELSE IF m = "Operational"
    THEN [w_strat |-> Frac(35, 100), w_impact |-> Frac(35, 100),
          w_urg |-> Frac(20, 100), w_dep |-> Frac(10, 100)]
    ELSE [w_strat |-> Frac(25, 100), w_impact |-> Frac(25, 100),
          w_urg |-> Frac(35, 100), w_dep |-> Frac(15, 100)]

\* The columns lines 41-80 add and line 83 leaves.
PriorityCols == {"urgency_score", "dependency_score", "priority_score"}

\* Lines 41-83 on one row.
WithPriority(row, m) ==
    LET urgency_score    == compute_urgency_score(row.days_left)
        dependency_score == Frac(IF row.dependency_risk THEN 1 ELSE 0, 1)
        strat_norm       == Frac(row.strategic_importance - 1, 4)
        impact_norm      == Frac(row.business_impact - 1, 4)
        w                == Weights(m)
        priority_score   ==
            FracAdd(FracAdd(FracAdd(FracTimes(strat_norm, w.w_strat),
                                    FracTimes(impact_norm, w.w_impact)),
                            FracTimes(urgency_score, w.w_urg)),
                    FracTimes(dependency_score, w.w_dep))
    IN  [c \in DOMAIN row \cup PriorityCols |->
            CASE c = "urgency_score"    -> urgency_score
              [] c = "dependency_score" -> dependency_score
              [] c = "priority_score"   -> priority_score
              [] OTHER                  -> row[c]]

\* The mode values passed in: the two the application offers and two others.
ScoreModes == {"Academic", "Operational", "Balanced", "academic"}

\* Rows of the table given to compute_priority_scores.
ScoreRow(i) ==
    [name : {NameList[i]}, days_left : {0, 1, MaxDay}, est_hours : {5 * Hour},
     strategic_importance : {1, 5}, business_impact : {1, 4},
     dependency_risk : {FALSE, TRUE}]

\* Tables of one to MaxTasks rows.
ScoreTables ==
    UNION {{[columns |-> AllRequired, rows |-> t] :
               t \in {u \in [1 .. n -> UNION {ScoreRow(i) : i \in 1 .. n}] :
                         \A i \in 1 .. n : u[i] \in ScoreRow(i)}} :
           n \in 1 .. MaxTasks}

ScoreInit ==
    /\ df_scored = <<>>
    /\ daily_capacity = 0
    /\ horizon_days = 0
    /\ mode \in ScoreModes
    /\ tasks = <<>>
    /\ remaining = <<>>
    /\ day = 0
    /\ schedule_rows = <<>>
    /\ allocation_log = <<>>
    /\ deadline_risks = <<>>
    /\ pc = "idle"
    /\ df \in ScoreTables
    /\ available_hours_per_day = 0
    /\ planning_horizon_days = 0
    /\ out = NoTable
    /\ returned = NoTable
    /\ raised = NoError
    /\ risk_pc = "idle"
    /\ out_obj = "none"
    /\ previous = NoCall
    /\ calls = 0
    /\ capacity_scenarios = NoScenarios
    /\ forecast_rows = <<>>
    /\ df_risk = NoTable
    /\ forecast = NoTable
    /\ forecast_pc = "idle"
    /\ weighted = 0
    /\ stress_pc = "idle"
    /\ score_pc = "call"

\* Lines 37-85: the columns are set on the copy, which is returned.
ComputePriorityScores ==
    /\ score_pc = "call"
    /\ LET table == [columns |-> df.columns \cup PriorityCols,
                     rows |-> [i \in 1 .. Len(df.rows) |->
                                  WithPriority(df.rows[i], mode)]]
       IN  /\ out' = table
           /\ returned' = table
           /\ df' = IF DataFrameCopy("caller") = "caller" THEN table ELSE df
    /\ out_obj' = DataFrameCopy("caller")
    /\ score_pc' = "returned"
    /\ UNCHANGED <<available_hours_per_day, planning_horizon_days, raised,
                   risk_pc, previous, calls>>
    /\ UNCHANGED <<sched_vars, forecast_vars, stress_vars>>

ScoreNext == ComputePriorityScores

SpecScore == ScoreInit /\ [][ScoreNext]_vars

\* ------------------------------------------------- reading the outputs

RECURSIVE HoursSum(_)
HoursSum(s) == IF s = <<>> THEN 0 ELSE Head(s).hours + HoursSum(Tail(s))

\* The allocation-log entries of day d, and those of the task named n.
EntriesOn(d) == SelectSeq(allocation_log, LAMBDA e : e.day = d)

EntriesOf(n) == SelectSeq(allocation_log, LAMBDA e : e.task = n)

\* The places of the task named n in DeadlineRisks.
RiskPlaces(n) == {k \in 1 .. Len(deadline_risks) : deadline_risks[k].task = n}

Abs(x) == IF x >= 0 THEN x ELSE -x

Started == pc \in {"days", "done"}

\* ------------------------------------------------------------------- C1

\* C1 as stated: on every day the hours of that day's allocation-log
\* entries sum to at most daily_capacity.
C1_LogWithinCapacity ==
    \A d \in 1 .. MaxDay : HoursSum(EntriesOn(d)) <= daily_capacity

\* C1 amended: the entries are rounded to 2 decimals, so on every day their
\* sum is at most daily_capacity plus 0.005 h for each entry of that day.
C1_LogWithinCapacityRounded ==
    \A d \in 1 .. MaxDay :
        2 * HoursSum(EntriesOn(d)) <= 2 * daily_capacity + Len(EntriesOn(d)) * Cent

\* A day on which two tasks were granted hours that fill the capacity.
C1_Witness ==
    \E d \in 1 .. MaxDay :
        /\ Len(EntriesOn(d)) >= 2
        /\ HoursSum(EntriesOn(d)) >= daily_capacity

\* ------------------------------------------------------------------- C2

\* C2: with distinct names, every task's remaining hours stay between 0 and
\* its est_hours and never increase from one day to the next (so the hours
\* granted to it, est_hours - remaining, never exceed est_hours).
C2_WorkConservation ==
    [][pc = "days" /\ DistinctNames(tasks) =>
          \A i \in Rows(tasks) :
              LET n == tasks[i].name IN
              /\ 0 <= remaining'[n]
              /\ remaining'[n] <= remaining[n]
              /\ remaining[n] <= tasks[i].est_hours]_vars

\* After a completed day a task is partly served.
C2_Witness ==
    /\ pc = "days"
    /\ day > 1
    /\ \E i \in Rows(tasks) :
          /\ 0 < remaining[tasks[i].name]
          /\ remaining[tasks[i].name] < tasks[i].est_hours

\* ------------------------------------------------------------------- C3

\* C3 as stated: when the run has finished, a task (distinct names) due
\* within the horizon whose allocated hours sum to less than est_hours is
\* listed exactly once in DeadlineRisks, with unfinished_hours = est_hours
\* minus its allocated hours and deadline_day = days_left.  The allocated
\* hours are read both ways: a task counts as short only if it is short of
\* the hours granted and of the hours logged, and either difference is
\* accepted as its unfinished_hours.
C3_UnfinishedIsEstMinusAllocated ==
    pc = "done" /\ DistinctNames(tasks) =>
        \A i \in Rows(tasks) :
            LET n      == tasks[i].name
                logged == HoursSum(EntriesOf(n))
            IN  /\ tasks[i].days_left <= horizon_days
                /\ remaining[n] > 0
                /\ logged < tasks[i].est_hours
                => /\ Cardinality(RiskPlaces(n)) = 1
                   /\ \A k \in RiskPlaces(n) :
                         /\ deadline_risks[k].unfinished_hours
                                \in {remaining[n], tasks[i].est_hours - logged}
                         /\ deadline_risks[k].deadline_day = tasks[i].days_left

\* C3 amended: a task (distinct names) due within the horizon that still has
\* hours remaining when the run has finished is listed exactly once, with
\* deadline_day = days_left and unfinished_hours = its remaining hours
\* rounded to 2 decimals; est_hours minus its logged hours is within 0.005 h
\* per log entry, plus 0.005 h, of that.
C3_UnfinishedIsRemainingRounded ==
    pc = "done" /\ DistinctNames(tasks) =>
        \A i \in Rows(tasks) :
            LET n     == tasks[i].name
                given == HoursSum(EntriesOf(n))
            IN  tasks[i].days_left <= horizon_days /\ remaining[n] > 0 =>
                    /\ Cardinality(RiskPlaces(n)) = 1
                    /\ \A k \in RiskPlaces(n) :
                          LET u == deadline_risks[k].unfinished_hours IN
                          /\ u % Cent = 0
                          /\ 2 * Abs(u - remaining[n]) <= Cent
                          /\ 2 * Abs(u - (tasks[i].est_hours - given))
                                 <= (Len(EntriesOf(n)) + 1) * Cent
                          /\ deadline_risks[k].deadline_day = tasks[i].days_left

\* The run has finished with a task due within the horizon that was served
\* on two days and is still unfinished.
C3_Witness ==
    /\ pc = "done"
    /\ \E i \in Rows(tasks) :
          /\ tasks[i].days_left <= horizon_days
          /\ remaining[tasks[i].name] > 0
          /\ Len(EntriesOf(tasks[i].name)) >= 2

\* ------------------------------------------------------------------- C4

\* The row of table t that bears the name n.
RowIn(t, n) == t[CHOOSE i \in Rows(t) : t[i].name = n]

RowOf(n) == RowIn(tasks, n)

C5_ListedIffRemaining ==
    pc = "done" /\ DistinctNames(tasks) =>
        \A i \in Rows(tasks) :
            RiskPlaces(tasks[i].name) # {} <=> remaining[tasks[i].name] > 0

\* The run has finished: a task due after the horizon is listed, and a
\* task that was fully served is not.
C5_Witness ==
    /\ pc = "done"
    /\ \E i, j \in Rows(tasks) :
          /\ tasks[i].days_left > horizon_days
          /\ RiskPlaces(tasks[i].name) # {}
          /\ remaining[tasks[j].name] = 0
          /\ RiskPlaces(tasks[j].name) = {}

\* ------------------------------------------------------------------- C6

\* C6: in every mode but Operational, a task is granted hours on a day only
\* if every task strictly before it in ascending (days_left, est_hours)
\* order whose deadline has not passed that day has no hours remaining.
C6_EarliestDeadlineFirst ==
    Started /\ mode # "Operational" =>
        \A k \in 1 .. Len(allocation_log) :
            \A i, j \in Rows(tasks) :
                /\ tasks[j].name = allocation_log[k].task
                /\ \/ tasks[i].days_left < tasks[j].days_left
                   \/ /\ tasks[i].days_left = tasks[j].days_left
                      /\ tasks[i].est_hours < tasks[j].est_hours
                /\ allocation_log[k].day <= tasks[i].days_left
                => remaining[tasks[i].name] = 0

\* Neither Academic nor Operational: two tasks are served on one day, the one
\* with the earlier deadline first, although the caller listed it second.
C6_Witness ==
    /\ mode \notin {"Academic", "Operational"}
    /\ \E k \in 1 .. Len(allocation_log) :
          /\ k > 1
          /\ allocation_log[k].day = allocation_log[k - 1].day
          /\ allocation_log[k - 1].deadline_day < allocation_log[k].deadline_day
          /\ \E a, b \in Rows(df_scored) :
                /\ a < b
                /\ df_scored[a].name = allocation_log[k].task
                /\ df_scored[b].name = allocation_log[k - 1].task

\* ------------------------------------------------------------------- C7

\* C7: in Operational mode, a task is granted hours on a day only if every
\* task of strictly larger priority_score / max(est_hours, 0.1) whose
\* deadline has not passed that day has no hours remaining, whatever the
\* deadlines.
C7_HighestValueDensityFirst ==
    Started /\ mode = "Operational" =>
        \A k \in 1 .. Len(allocation_log) :
            \A i, j \in Rows(tasks) :
                /\ tasks[j].name = allocation_log[k].task
                /\ tasks[i].priority_score * Max(tasks[j].est_hours, Hour \div 10)
                       > tasks[j].priority_score * Max(tasks[i].est_hours, Hour \div 10)
                /\ allocation_log[k].day <= tasks[i].days_left
                => remaining[tasks[i].name] = 0

\* Operational mode: two tasks are served on one day, the denser one first
\* although its deadline is the later one and its est_hours are below 0.1 h.
C7_Witness ==
    /\ mode = "Operational"
    /\ \E k \in 1 .. Len(allocation_log) :
          /\ k > 1
          /\ allocation_log[k].day = allocation_log[k - 1].day
          /\ allocation_log[k - 1].deadline_day > allocation_log[k].deadline_day
          /\ LET first == RowOf(allocation_log[k - 1].task)
                 next  == RowOf(allocation_log[k].task)
             IN  /\ first.est_hours < Hour \div 10
                 /\ first.priority_score < next.priority_score

\* ------------------------------------------------------------------- C8

\* The scenario: A {days_left 2, est_hours 5}, B {days_left 3, est_hours 5},
\* daily_capacity 4, horizon_days 3, Academic mode.
C8_Scenario ==
    /\ mode = "Academic"
    /\ daily_capacity = 4 * Hour
    /\ horizon_days = 3
    /\ Len(df_scored) = 2
    /\ df_scored[1].name = "A" /\ df_scored[1].days_left = 2
    /\ df_scored[1].est_hours = 5 * Hour
    /\ df_scored[2].name = "B" /\ df_scored[2].days_left = 3
    /\ df_scored[2].est_hours = 5 * Hour

Grants(log) == [k \in 1 .. Len(log) |-> <<log[k].task, log[k].day, log[k].hours>>]

\* The grants of the scenario: A=4 on day 1, A=1 then B=3 on day 2, B=2 on
\* day 3, and no deadline risk.
C8_Grants ==
    /\ Grants(allocation_log) =
           << <<"A", 1, 4 * Hour>>, <<"A", 2, 1 * Hour>>,
              <<"B", 2, 3 * Hour>>, <<"B", 3, 2 * Hour>> >>
    /\ Len(schedule_rows) = 3
    /\ \A k \in 1 .. 3 : schedule_rows[k].day = k
    /\ schedule_rows[2].allocations = << <<"A", 1 * Hour>>, <<"B", 3 * Hour>> >>
    /\ deadline_risks = <<>>

\* C8 as stated: the scenario is granted exactly A=4 on day 1, A=1 then B=3
\* on day 2, B=2 on day 3; every day ends with remaining_capacity 0 and
\* DeadlineRisks is empty.
C8_SchedulingScenario ==
    C8_Scenario /\ pc = "done" =>
        /\ C8_Grants
        /\ \A k \in 1 .. 3 : schedule_rows[k].remaining_capacity = 0

\* C8 amended: the same grants and no deadline risk; days 1 and 2 end with
\* remaining_capacity 0 and day 3, on which B needs only 2 of the 4 hours,
\* with remaining_capacity 2.
C8_SchedulingScenarioDay3 ==
    C8_Scenario /\ pc = "done" =>
        /\ C8_Grants
        /\ schedule_rows[1].remaining_capacity = 0
        /\ schedule_rows[2].remaining_capacity = 0
        /\ schedule_rows[3].remaining_capacity = 2 * Hour
        /\ schedule_rows[3].allocated_hours = 2 * Hour

\* The scenario has run to its end.
C8_Witness == C8_Scenario /\ pc = "done" /\ Len(allocation_log) = 4

\* ------------------------------------------------------------------- C9

\* C9 as stated: overload_hours is 0 in every day row.
C9_OverloadAlwaysZero ==
    \A k \in 1 .. Len(schedule_rows) : schedule_rows[k].overload_hours = 0

\* ------------------------------------------------------------------ C10

\* C10: when the table given to compute_task_risk lacks any required column,
\* the call ends by raising the missing-column error (the code's KeyError),
\* whose message names a required column the table lacks; no table is
\* returned, and no derived column has been added to the copy.
C10_MissingColumnRaises ==
    risk_pc # "call" /\ ~(AllRequired \subseteq df.columns) =>
        /\ risk_pc = "raised"
        /\ raised.type = "KeyError"
        /\ raised.message[2] \in AllRequired \ df.columns
        /\ AllRequired \ df.columns = {"business_impact"}
               => raised.message[2] = "business_impact"
        /\ returned = NoTable
        /\ out = df

\* The call was made on a table of two rows that lacks business_impact
\* alone, and has ended.
C10_Witness ==
    /\ risk_pc = "raised"
    /\ AllRequired \ df.columns = {"business_impact"}
    /\ Len(df.rows) = 2

\* ------------------------------------------- reading the risk table

\* The call under way, or the last one made, has handed back a table.
Returned == risk_pc = "returned"

\* The rows of the returned table that compete with row i: days_left no
\* later than its own.
Competitors(rows, i) == {j \in DOMAIN rows : rows[j].days_left <= rows[i].days_left}

RECURSIVE SumOfEst(_, _)
SumOfEst(rows, J) ==
    IF J = {} THEN 0
    ELSE LET j == CHOOSE x \in J : TRUE
         IN  rows[j].est_hours + SumOfEst(rows, J \ {j})

\* S_i: the est_hours of the competitors of row i, row i included.
S(rows, i) == SumOfEst(rows, Competitors(rows, i))

\* p = q for two quotients over guarded denominators.
QuotEq(p, q) == QuotLeq(p, q) /\ QuotLeq(q, p)

\* (n - 1e-9 h) / (d + 1e-9 h) for hours n and d: n / (d + 1e-9) - 1 for
\* n hours beyond d.
Guarded(n, d) == [num |-> InEighths(n), sub |-> 1, den |-> InEighths(d)]

\* ------------------------------------------------------------------ C11

\* C11: whenever the table has every required column, whatever its days_left
\* and est_hours (zero and negative ones too), the call raises nothing; in
\* the table it returns every row has days_left >= 1 and
\* est_hours >= 0 (the input's values, raised to 1 and to 0), and its
\* deadline_window_days, capacity_before_deadline, slack_hours, urgency and
\* competition_pressure are computed from these clamped values.
C11_ClampedNeverRejected ==
    AllRequired \subseteq df.columns =>
        /\ raised = NoError
        /\ risk_pc # "raised"
        /\ Returned =>
              /\ Len(returned.rows) = Len(df.rows)
              /\ \A i \in DOMAIN returned.rows :
                    LET r == returned.rows[i]
                        W == Min(r.days_left, planning_horizon_days)
                               * available_hours_per_day
                    IN  /\ r.days_left >= 1
                        /\ r.est_hours >= 0
                        /\ r.days_left = Max(df.rows[i].days_left, 1)
                        /\ r.est_hours = Max(df.rows[i].est_hours, 0)
                        /\ r.deadline_window_days
                               = Min(r.days_left, planning_horizon_days)
                        /\ r.capacity_before_deadline = W
                        /\ r.slack_hours = W - r.est_hours
                        /\ r.urgency.num = 1 /\ r.urgency.den = r.days_left
                        /\ IF S(returned.rows, i) > W
                           THEN QuotEq(r.competition_pressure,
                                       Guarded(S(returned.rows, i) - W, W))
                           ELSE QuotZero(r.competition_pressure)

\* A table of two rows, one with days_left 0 and one with negative
\* est_hours, has been returned.
C11_Witness ==
    /\ Returned
    /\ Len(df.rows) = 2
    /\ \E i, j \in DOMAIN df.rows :
          /\ i # j
          /\ df.rows[i].days_left = 0 /\ df.rows[i].est_hours > 0
          /\ df.rows[j].est_hours < 0 /\ df.rows[j].days_left = 1
          /\ ~QuotZero(returned.rows[i].competition_pressure)

\* ------------------------------------------------------------------ C12

\* The quotient q is exactly the fraction n / d (n, d in eighths of an hour).
QuotEqFrac(q, n, d) ==
    SignEps(q.num * d - n * q.den, 0 - q.sub * d - n, 0) = 0

\* q > 0.
QuotPositive(q) == SignEps(q.num, 0 - q.sub, 0) > 0

\* capacity_before_deadline_i as the claims give it.
WindowCapacity(r) ==
    Min(r.days_left, planning_horizon_days) * available_hours_per_day

\* C12 as stated: competition_pressure_i = max(0, S_i / capacity_before_deadline_i
\* - 1) for every row i of the returned table, S_i the est_hours of the rows
\* with days_left_j <= days_left_i, and it is 0 exactly when
\* S_i <= capacity_before_deadline_i.
C12_CompetitionPressureExact ==
    Returned =>
        \A i \in DOMAIN returned.rows :
            LET r   == returned.rows[i]
                S_i == S(returned.rows, i)
                W   == WindowCapacity(r)
            IN  /\ r.capacity_before_deadline = W
                /\ QuotEqFrac(r.competition_pressure,
                              Max(0, InEighths(S_i - W)), InEighths(W))
                /\ QuotZero(r.competition_pressure) <=> S_i <= W

\* C12, amended: competition_pressure_i = max(0, S_i /
\* (capacity_before_deadline_i + 1e-9) - 1), with S_i and
\* capacity_before_deadline_i as stated; it is 0 exactly when
\* S_i <= capacity_before_deadline_i + 1e-9.
C12_CompetitionPressureGuarded ==
    Returned =>
        \A i \in DOMAIN returned.rows :
            LET r   == returned.rows[i]
                S_i == S(returned.rows, i)
                W   == WindowCapacity(r)
                \* S_i / (W + 1e-9) - 1
                raw == Guarded(S_i - W, W)
            IN  /\ r.capacity_before_deadline = W
                /\ IF QuotPositive(raw)
                   THEN QuotEq(r.competition_pressure, raw)
                   ELSE QuotZero(r.competition_pressure)
                /\ QuotZero(r.competition_pressure) <=> ~QuotPositive(raw)

\* A table of two rows with the same days_left has been returned, whose
\* hours together exceed the window although neither does alone.
C12_Witness ==
    /\ Returned
    /\ Len(returned.rows) = 2
    /\ returned.rows[1].days_left = returned.rows[2].days_left
    /\ \A i \in 1 .. 2 :
          /\ returned.rows[i].est_hours > 0
          /\ returned.rows[i].est_hours <= returned.rows[i].capacity_before_deadline
          /\ ~QuotZero(returned.rows[i].competition_pressure)

\* ------------------------------------------------------------------ C13

\* C13: of two tasks of the returned table, the one with the later deadline
\* never has the higher competition_pressure.
C13_FarOffLowerPressure ==
    Returned =>
        \A i, j \in DOMAIN returned.rows :
            returned.rows[i].days_left < returned.rows[j].days_left =>
                QuotLeq(returned.rows[j].competition_pressure,
                        returned.rows[i].competition_pressure)

\* ------------------------------------------------------------------ C14

\* The table has been returned twice: `previous` holds the earlier call.
ReturnedTwice == Returned /\ previous.returned # NoTable

\* No row of table `hi` is at higher risk than the same row of table `lo`:
\* overload_norm and competition_pressure are no higher, urgency and dep are
\* the same, and so risk_score and failure_probability are no higher.
NoRiskier(hi, lo) ==
    /\ Len(hi.rows) = Len(lo.rows)
    /\ \A i \in DOMAIN hi.rows :
          /\ QuotLeq(hi.rows[i].overload_norm, lo.rows[i].overload_norm)
          /\ QuotLeq(hi.rows[i].competition_pressure,
                     lo.rows[i].competition_pressure)
          /\ hi.rows[i].urgency = lo.rows[i].urgency
          /\ hi.rows[i].dep = lo.rows[i].dep
          /\ hi.rows[i].risk_score <= lo.rows[i].risk_score
          /\ hi.rows[i].failure_probability <= lo.rows[i].failure_probability

\* C14: of two calls on the same table and horizon at capacities c1 < c2, the
\* one at c2 gives every task a risk_score, and so a failure_probability, no
\* higher than the one at c1.
C14_MonotoneInCapacity ==
    ReturnedTwice =>
        /\ previous.available_hours_per_day < available_hours_per_day
              => NoRiskier(returned, previous.returned)
        /\ available_hours_per_day < previous.available_hours_per_day
              => NoRiskier(previous.returned, returned)

\* Two calls at rising capacity on a table of two tasks: the first task is
\* overloaded in both and its risk_score has dropped, the second is still
\* under pressure from the first.
C14_Witness ==
    /\ ReturnedTwice
    /\ previous.available_hours_per_day < available_hours_per_day
    /\ Len(returned.rows) = 2
    /\ returned.rows[1].overload_severity > 0
    /\ returned.rows[1].risk_score < previous.returned.rows[1].risk_score
    /\ returned.rows[2].overload_severity = 0
    /\ ~QuotZero(returned.rows[2].competition_pressure)
    /\ returned.rows[2].failure_probability
           < previous.returned.rows[2].failure_probability

\* ------------------------------------------------------------------ C15

\* The call of forecast_system_risk has ended, by a return or by a raise.
ForecastEnded == forecast_pc \in {"returned", "raised"}

\* How many places of the sequence t satisfy Test.
Count(t, Test(_)) == Cardinality({k \in DOMAIN t : Test(t[k])})

\* C15: on a table with every required column, forecast_system_risk returns
\* one row per delta passed in (per default delta when none is passed), each
\* with capacity_hours_per_day = max(1, base + capacity_delta), in
\* non-decreasing order of capacity_hours_per_day.
C15_ForecastRowPerDelta ==
    ForecastEnded /\ AllRequired \subseteq df.columns =>
        /\ forecast_pc = "returned"
        /\ Len(forecast.rows) = Len(capacity_scenarios.deltas)
        /\ \A d \in DeltaValues \cup {0 - Hour, 2 * Hour} :
              Count(forecast.rows, LAMBDA r : r.capacity_delta = d)
                  = Count(capacity_scenarios.deltas, LAMBDA x : x = d)
        /\ \A k \in DOMAIN forecast.rows :
              forecast.rows[k].capacity_hours_per_day
                  = Max(Hour, available_hours_per_day
                                  + forecast.rows[k].capacity_delta)
        /\ \A k \in DOMAIN forecast.rows :
              k > 1 => forecast.rows[k - 1].capacity_hours_per_day
                           <= forecast.rows[k].capacity_hours_per_day

\* ------------------------------------------------------------------ C16

\* compute_weighted_stress has returned for a table of one task.
SingleTaskStress == stress_pc = "returned" /\ Len(df_risk.rows) = 1

\* C16 as stated: for a table of one task the index is exactly 100 times the
\* task's failure_probability, whatever its impact_weight.
C16_SingleTaskStressExact ==
    SingleTaskStress => 10 * weighted = df_risk.rows[1].failure_probability

\* C16, amended: for a table of one task the index is 100 times the task's
\* failure_probability, times impact_weight / (impact_weight + 1e-9), rounded
\* to one decimal: whatever the impact_weight, the tenth nearest to
\* 100 * failure_probability, the lower one when that is halfway between two.
C16_SingleTaskStressRounded ==
    SingleTaskStress =>
        LET p == df_risk.rows[1].failure_probability
        IN  /\ 10 * weighted - p \in (0 - 5) .. 4
            /\ weighted \in 0 .. 1000

\* The index of a single task of failure_probability 3/16 and impact_weight
\* 0.1 has been returned: 18.75 is halfway between two tenths.
C16_Witness ==
    /\ SingleTaskStress
    /\ df_risk.rows[1].failure_probability = 1875
    /\ df_risk.rows[1].impact_weight = 10
    /\ weighted = 187

\* ------------------------------------------------------------------ C17

\* lo / 10000 <= q <= hi / 10000 for a quotient q.
QuotWithin(q, lo, hi) ==
    /\ SignEps(q.num * 10000 - lo * q.den, 0 - q.sub * 10000 - lo, 0) >= 0
    /\ SignEps(q.num * 10000 - hi * q.den, 0 - q.sub * 10000 - hi, 0) <= 0

\* Scenario B has been run: the single task at 3 hours a day, horizon 7.
ScenarioB ==
    /\ Returned
    /\ df = ScenarioTable
    /\ available_hours_per_day = 3 * Hour
    /\ planning_horizon_days = 7

\* C17 as stated: scenario B yields capacity_before_deadline 3, slack_hours
\* -1, overload_severity 1, overload_norm and competition_pressure 1/3 (to
\* three decimals), risk_score about 0.80 and failure_probability about
\* 0.690.
C17_ScenarioB ==
    ScenarioB =>
        LET r == returned.rows[1]
        IN  /\ r.capacity_before_deadline = 3 * Hour
            /\ r.slack_hours = 0 - Hour
            /\ r.overload_severity = Hour
            /\ QuotWithin(r.overload_norm, 3328, 3338)
            /\ QuotWithin(r.competition_pressure, 3328, 3338)
            /\ r.risk_score \in 795 .. 804
            /\ r.failure_probability \in 6890 .. 6910

\* C17, amended: scenario B yields capacity_before_deadline 3, slack_hours
\* -1, overload_severity 1, overload_norm 1 / (3 + 1e-9) and
\* competition_pressure 4 / (3 + 1e-9) - 1 (both 1/3 to three decimals),
\* risk_score about 0.90 and failure_probability = sigmoid(0.90), about
\* 0.711.
C17_ScenarioBScore ==
    ScenarioB =>
        LET r == returned.rows[1]
        IN  /\ r.capacity_before_deadline = 3 * Hour
            /\ r.slack_hours = 0 - Hour
            /\ r.overload_severity = Hour
            /\ QuotEq(r.overload_norm,
                      [num |-> InEighths(Hour), sub |-> 0,
                       den |-> InEighths(3 * Hour)])
            /\ QuotEq(r.competition_pressure, Guarded(4 * Hour - 3 * Hour, 3 * Hour))
            /\ QuotWithin(r.overload_norm, 3328, 3338)
            /\ QuotWithin(r.competition_pressure, 3328, 3338)
            /\ r.risk_score \in 895 .. 904
            /\ r.failure_probability \in 7100 .. 7120

C17_Witness == ScenarioB /\ returned.rows[1].urgency.den = 1 /\ calls = 1

\* ------------------------------------------------------------------ C18

\* C18: every row of a returned table has impact_weight in [0.1, 1.0] and
\* failure_probability in [0, 1] (strategic_importance and business_impact
\* are in 1..5 in every table given).
C18_WeightAndProbabilityRanges ==
    Returned =>
        \A i \in DOMAIN returned.rows :
            /\ df.rows[i].strategic_importance \in 1 .. 5
            /\ df.rows[i].business_impact \in 1 .. 5
            /\ returned.rows[i].impact_weight >= 10
            /\ returned.rows[i].impact_weight <= 100
            /\ returned.rows[i].failure_probability >= 0
            /\ returned.rows[i].failure_probability <= 10000

\* A table has been returned with a task of the least weight and low risk
\* and a task of the greatest weight whose risk_score is far beyond the range
\* where the sigmoid is below 1.
C18_Witness ==
    /\ Returned
    /\ Len(returned.rows) = 2
    /\ df.rows[1].strategic_importance = 1 /\ df.rows[1].business_impact = 1
    /\ returned.rows[1].impact_weight = 20
    /\ returned.rows[1].failure_probability < 5000
    /\ df.rows[2].strategic_importance = 5 /\ df.rows[2].business_impact = 5
    /\ returned.rows[2].impact_weight = 100
    /\ returned.rows[2].risk_score > 20000
    /\ returned.rows[2].failure_probability = 10000

\* ------------------------------------------------------------------ C19

\* The weights (w_strat, w_impact, w_urg, w_dep) the claim gives for a mode,
\* in hundredths.
StatedWeights(m) ==
    CASE m = "Academic"    -> <<10, 5, 70, 15>>
      [] m = "Operational" -> <<35, 35, 20, 10>>
      [] OTHER             -> <<25, 25, 35, 15>>

C20_PureAndIdempotent ==
    [][/\ df' = df
       /\ (/\ risk_pc' = "returned"
           /\ previous'.returned # NoTable
           /\ previous'.available_hours_per_day = available_hours_per_day')
              => returned' = previous'.returned]_vars

\* The same table, with a days_left of 0 and a negative est_hours in it, has
\* been passed twice with the same parameters; both calls have returned and
\* the table still has every value and no more than its six columns.
C20_Witness ==
    /\ ReturnedTwice
    /\ previous.available_hours_per_day = available_hours_per_day
    /\ \E i \in DOMAIN df.rows :
          /\ df.rows[i].days_left = 0
          /\ df.rows[i].est_hours < 0
          /\ returned.rows[i].days_left = 1
          /\ returned.rows[i].est_hours = 0
    /\ df.columns = AllRequired
    /\ returned.columns # df.columns

\* ------------------------------------------------------------------- C21

RECURSIVE EstSum(_)
\* The sum of est_hours over the rows of a table.
EstSum(t) == IF t = <<>> THEN 0 ELSE Head(t).est_hours + EstSum(Tail(t))

RECURSIVE UnfinishedSum(_)
\* The sum of unfinished_hours over DeadlineRisks.
UnfinishedSum(s) ==
    IF s = <<>> THEN 0 ELSE Head(s).unfinished_hours + UnfinishedSum(Tail(s))

\* The rows of the table that bear the name n.
RowsNamed(t, n) == SelectSeq(t, LAMBDA r : r.name = n)

\* C21 as stated: when the run has finished, whether or not two rows bear
\* the same name, the est_hours of all rows sum to the hours of the
\* allocation log plus the unfinished_hours of DeadlineRisks, and the hours
\* granted under a name are at most the est_hours of the rows bearing it.
C21_HoursAccounting ==
    pc = "done" =>
        /\ EstSum(df_scored)
               = HoursSum(allocation_log) + UnfinishedSum(deadline_risks)
        /\ \A n \in TaskNames(df_scored) :
              HoursSum(EntriesOf(n)) <= EstSum(RowsNamed(df_scored, n))

\* ------------------------------------------------------------------- C22

\* a + b exactly (no float operation: the sum of the claim's inequality).
ExactPlus(a, b) ==
    Double(a.hi + b.hi + ((a.lo + b.lo) \div Limb), (a.lo + b.lo) % Limb)

RECURSIVE ExactTimes(_, _)
\* k * a exactly, for a whole number k.
ExactTimes(k, a) == IF k = 0 THEN Double(0, 0) ELSE ExactPlus(a, ExactTimes(k - 1, a))

RECURSIVE ExactEstSum(_, _)
\* The exact sum of est_hours over the rows of t due on day d or before.
ExactEstSum(t, d) ==
    IF t = <<>> THEN Double(0, 0)
    ELSE IF Head(t).days_left <= d
         THEN ExactPlus(Head(t).est_hours, ExactEstSum(Tail(t), d))
         ELSE ExactEstSum(Tail(t), d)

\* For every task the est_hours of the tasks due no later sum to at most
\* min(days_left, horizon) * capacity: the inequality under which
\* competition_pressure is 0.
NoOversubscription ==
    \A i \in Rows(df_scored) :
        DoubleLeq(ExactEstSum(df_scored, df_scored[i].days_left),
                  ExactTimes(Min(df_scored[i].days_left, horizon_days),
                             daily_capacity))

\* C22 as stated: for distinct-name tasks with days_left >= 1, capacity > 0
\* and horizon >= 1 that are not oversubscribed, the run in Academic mode
\* with the same capacity and horizon ends with DeadlineRisks empty.
C22_EdfMeetsDeadlines ==
    /\ pc = "done"
    /\ mode = "Academic"
    /\ DistinctNames(df_scored)
    /\ NoOversubscription
    => deadline_risks = <<>>

\* ------------------------------------------------------------------- C23

\* overload_severity of row i of the sorted table, as compute_task_risk
\* derives it for the same capacity and horizon.
OverloadSeverity(i) ==
    WithWindow(tasks[i], daily_capacity, horizon_days)["overload_severity"]

LastDay == Len(schedule_rows)

\* C24: in any mode, if the day that has just ended is left with
\* remaining_capacity > 0 in its ledger row, every task whose days_left is
\* that day or later has no hours remaining at the end of it.
C24_NoIdleCapacity ==
    Started /\ LastDay >= 1 /\ schedule_rows[LastDay].remaining_capacity > 0 =>
        \A i \in Rows(tasks) :
            tasks[i].days_left >= LastDay => remaining[tasks[i].name] = 0

\* A day has ended with capacity left: a task that was open that day was
\* served on it, and a task whose deadline had passed still has hours
\* remaining.
C24_Witness ==
    /\ Started
    /\ LastDay >= 1
    /\ schedule_rows[LastDay].remaining_capacity > 0
    /\ \E i, j \in Rows(tasks) :
          /\ tasks[i].days_left >= LastDay
          /\ \E k \in 1 .. Len(allocation_log) :
                /\ allocation_log[k].task = tasks[i].name
                /\ allocation_log[k].day = LastDay
          /\ tasks[j].days_left < LastDay
          /\ remaining[tasks[j].name] > 0

\* ------------------------------------------------------------------- C25

\* The ledger has one row for each day 1 .. horizon_days, in order.
OneRowPerDay ==
    /\ Len(schedule_rows) = horizon_days
    /\ \A d \in 1 .. Len(schedule_rows) : schedule_rows[d].day = d

\* C25 as stated: when the run has finished the ledger has exactly
\* horizon_days rows numbered 1 .. horizon_days in order, and in each of
\* them allocated_hours is the sum of the hours of that day's log entries
\* and allocated_hours + remaining_capacity = daily_capacity (the capacity
\* being positive).
C25_LedgerAndLogAgree ==
    pc = "done" /\ daily_capacity > 0 =>
        /\ OneRowPerDay
        /\ \A d \in 1 .. Len(schedule_rows) :
              /\ schedule_rows[d].allocated_hours = HoursSum(EntriesOn(d))
              /\ schedule_rows[d].allocated_hours + schedule_rows[d].remaining_capacity
                     = daily_capacity

\* C25 amended: the rows are as stated; each figure is rounded to 2 decimals
\* on its own, so allocated_hours is within 0.005 h per log entry of that
\* day, plus 0.005 h, of the sum of their hours, and allocated_hours +
\* remaining_capacity is within 0.01 h of daily_capacity.
C25_LedgerAndLogAgreeRounded ==
    pc = "done" /\ daily_capacity > 0 =>
        /\ OneRowPerDay
        /\ \A d \in 1 .. Len(schedule_rows) :
              /\ 2 * Abs(schedule_rows[d].allocated_hours - HoursSum(EntriesOn(d)))
                     <= (Len(EntriesOn(d)) + 1) * Cent
              /\ Abs(schedule_rows[d].allocated_hours
                         + schedule_rows[d].remaining_capacity - daily_capacity)
                     <= Cent

\* A run of two days or more has finished, and on one day with two log
\* entries neither equality holds.
C25_Witness ==
    /\ pc = "done"
    /\ horizon_days >= 2
    /\ \E d \in 1 .. Len(schedule_rows) :
          /\ Len(EntriesOn(d)) = 2
          /\ schedule_rows[d].allocated_hours # HoursSum(EntriesOn(d))
          /\ schedule_rows[d].allocated_hours + schedule_rows[d].remaining_capacity
                 # daily_capacity

====
